---- MODULE Spec2Model ----
(***************************************************************************)
(* Model of create_torchscript_neuropod                                    *)
(* (source/neuropods/python/backends/torchscript/packager.py).             *)
(*                                                                         *)
(* The function is a sequential file-system script.  The state is the file *)
(* system it works on (directories and files, paths being sequences of     *)
(* components) and, for every call in flight, its bound parameters, its    *)
(* position in the function body, the exception it ended with and the list *)
(* of side effects it has performed so far.                                *)
(***************************************************************************)
EXTENDS Integers, Sequences, FiniteSets, TLC

VARIABLES
    env,      \* which initial file system the calls run against (never changes)
    dirs,     \* the set of directories that exist
    files,    \* the files that exist: path -> content
    call,     \* call[p]: the arguments as given by the caller of call p
    pc,       \* pc[p]: the statement call p executes next
    i,        \* i[p]: index of the next entry of custom_ops to copy (line 99)
    exc,      \* exc[p]: the exception call p ended with, or NoExc
    existed,  \* existed[p]: did neuropod_path exist when call p ran os.mkdir
    log       \* log[p]: the side effects call p has performed, in order

vars == <<env, dirs, files, call, pc, i, exc, existed, log>>

----------------------------------------------------------------------------
(* Bounds *)

\* number of calls of create_torchscript_neuropod on the same neuropod_path
NumCalls == 2
\* longest custom_ops list a caller passes
MaxOps == 2

Calls == 1 .. NumCalls

----------------------------------------------------------------------------
(* Values *)

None == "None"
NotGiven == "NotGiven"
NoExc == [type |-> "none", msg |-> ""]

\* Paths are sequences of components.
Root == <<>>
NeuropodPath == <<"out", "pod">>
\* custom-op binaries a caller may name; two of them share a base name
OpPaths == {<<"a", "x.so">>, <<"b", "x.so">>, <<"a", "y.so">>}

\* os.path.join(path, name)
Join(path, name) == Append(path, name)
\* os.path.basename(path): the last component
Basename(path) == path[Len(path)]
\* the directory holding path
Parent(path) == SubSeq(path, 1, Len(path) - 1)
\* path and every directory above it, the root excluded
AncestorsAndSelf(path) == {SubSeq(path, 1, k) : k \in 1 .. Len(path)}

PathExists(path) == path \in dirs \/ path \in DOMAIN files

\* override: f with key k set to v (k may be new)
Put(f, k, v) == [x \in DOMAIN f \cup {k} |-> IF x = k THEN v ELSE f[x]]

\* contents of files
Bytes(path) == <<"bytes", path>>
SavedModel(module) == <<"torchscript", module>>
TestData(input, expected) == <<"test_data", input, expected>>
ConfigFile(cfg) == <<"config", cfg>>

\* locations inside a neuropod
OpsDir(np) == Join(Join(np, "0"), "ops")
DataDir(np) == Join(Join(np, "0"), "data")
ModelPath(np) == Join(DataDir(np), "model.pt")
ConfigPath(np) == Join(np, "config.json")
TestDataPath(np) == Join(np, "test_data.pkl")

----------------------------------------------------------------------------
(* Parameters *)

\* The signature's defaults (lines 19-24), applied when the caller leaves an
\* optional argument out.
Bind(c) ==
    [neuropod_path |-> c.neuropod_path,
     model_name |-> c.model_name,
     module |-> c.module,
     input_spec |-> c.input_spec,
     output_spec |-> c.output_spec,
     custom_ops |-> c.custom_ops,
     test_input_data |->
        IF c.test_input_data = NotGiven THEN None ELSE c.test_input_data,
     test_expected_out |->
        IF c.test_expected_out = NotGiven THEN None ELSE c.test_expected_out,
     persist_test_data |->
        IF c.persist_test_data = NotGiven THEN "True" ELSE c.persist_test_data,
     input_tensor_device |->
        IF c.input_tensor_device = NotGiven THEN None ELSE c.input_tensor_device,
     default_input_tensor_device |->
        IF c.default_input_tensor_device = NotGiven THEN "GPU"
        ELSE c.default_input_tensor_device]

\* the bound parameters of call p
Arg(p) == Bind(call[p])

\* What the packaged model computes: a module is identified here by the
\* output it produces on the test input.
Infer(module) == IF module = "modA" THEN "outA" ELSE "outB"

\* sequences over S of length at most n
SeqsUpTo(S, n) == UNION {[1 .. k -> S] : k \in 0 .. n}

\* the config-related arguments a caller passes (passed through to the config)
ConfigInputs ==
    {[input_spec |-> "in_spec_1", output_spec |-> "out_spec_1",
      input_tensor_device |-> NotGiven, default_input_tensor_device |-> NotGiven],
     [input_spec |-> "in_spec_2", output_spec |-> "out_spec_1",
      input_tensor_device |-> "x_on_GPU", default_input_tensor_device |-> "CPU"],
     [input_spec |-> "in_spec_1", output_spec |-> "out_spec_2",
      input_tensor_device |-> "x_on_CPU", default_input_tensor_device |-> "GPU"]}

MakeCall(cfg, ops, module, tid, teo, persist) ==
    [neuropod_path |-> NeuropodPath,
     model_name |-> "model",
     module |-> module,
     input_spec |-> cfg.input_spec,
     output_spec |-> cfg.output_spec,
     custom_ops |-> ops,
     test_input_data |-> tid,
     test_expected_out |-> teo,
     persist_test_data |-> persist,
     input_tensor_device |-> cfg.input_tensor_device,
     default_input_tensor_device |-> cfg.default_input_tensor_device]

\* the calls a single caller can make
ArgSpace ==
    {MakeCall(cfg, ops, module, tid, teo, persist) :
        cfg \in ConfigInputs, ops \in SeqsUpTo(OpPaths, MaxOps),
        module \in {"modA", "modB"}, tid \in {NotGiven, "in"},
        teo \in {NotGiven, "outA"}, persist \in {NotGiven, "False"}}

\* the calls made when several callers race for the same neuropod_path
ConcArgSpace ==
    {MakeCall(cfg, ops, module, tid, NotGiven, NotGiven) :
        cfg \in {c \in ConfigInputs : c.input_tensor_device # "x_on_CPU"},
        ops \in {<<>>, <<<<"a", "x.so">>>>},
        module \in {"modA"}, tid \in {NotGiven, "in"}}

\* the arguments recorded for a call that is never made
Unused == MakeCall(CHOOSE c \in ConfigInputs : c.input_tensor_device = NotGiven,
                   <<>>, "modA", NotGiven, NotGiven, NotGiven)

----------------------------------------------------------------------------
(* Initial file systems *)

Envs == {"absent", "exists_empty", "exists_full", "no_parent"}

SourceDirs == {Root, <<"a">>, <<"b">>}
SourceFiles == [path \in OpPaths |-> Bytes(path)]

\* the config of a neuropod packaged earlier by somebody else
OldConfig ==
    [model_name |-> "old", platform |-> "torchscript",
     input_spec |-> "in_spec_1", output_spec |-> "out_spec_1", custom_ops |-> <<>>,
     input_tensor_device |-> None, default_input_tensor_device |-> "GPU"]

InitDirs(e) ==
    CASE e = "absent" -> SourceDirs \cup {<<"out">>}
      [] e = "no_parent" -> SourceDirs
      [] e = "exists_empty" -> SourceDirs \cup {<<"out">>, NeuropodPath}
      [] e = "exists_full" ->
            SourceDirs \cup {<<"out">>} \cup AncestorsAndSelf(OpsDir(NeuropodPath))
                \cup AncestorsAndSelf(DataDir(NeuropodPath))

InitFiles(e) ==
    IF e = "exists_full"
    THEN Put(Put(SourceFiles, ConfigPath(NeuropodPath), ConfigFile(OldConfig)),
             ModelPath(NeuropodPath), SavedModel("old"))
    ELSE SourceFiles

----------------------------------------------------------------------------
(* Library calls *)

\* (variant) os.mkdir replaced by a creation that tolerates an existing path
OsMkdirExistOk(path) == Parent(path) \in dirs

\* os.mkdir(path) succeeds when path does not exist and its parent does;
\* otherwise it raises an OSError (FileExistsError, FileNotFoundError, ...).
OsMkdirOk(path) == ~PathExists(path) /\ Parent(path) \in dirs

\* os.makedirs(path) creates the missing directories above path too; it
\* raises an OSError when path itself exists.
OsMakedirsOk(path) == ~PathExists(path)

\* the except clause of lines 93-94: every OSError becomes this ValueError
MkdirError == [type |-> "ValueError", msg |-> "already exists"]

\* (variant) the default device hard-coded instead of passed on
ConfigOfFixedDevice(a) ==
    [model_name |-> a.model_name,
     platform |-> "torchscript",
     input_spec |-> a.input_spec,
     output_spec |-> a.output_spec,
     custom_ops |-> [k \in 1 .. Len(a.custom_ops) |-> Basename(a.custom_ops[k])],
     input_tensor_device |-> a.input_tensor_device,
     default_input_tensor_device |-> "GPU"]

\* the config the function hands to write_neuropod_config (lines 103-112)
ConfigOf(a) ==
    [model_name |-> a.model_name,
     platform |-> "torchscript",
     input_spec |-> a.input_spec,
     output_spec |-> a.output_spec,
     custom_ops |-> [k \in 1 .. Len(a.custom_ops) |-> Basename(a.custom_ops[k])],
     input_tensor_device |-> a.input_tensor_device,
     default_input_tensor_device |-> a.default_input_tensor_device]

\* (variant) the model is stored right after the custom ops
AfterCopyModelFirst == "makedirs_data"

\* the statement after the copy loop of lines 99-100
AfterCopy == "write_config"
\* the statement after the config is written
AfterWriteConfig == "makedirs_data"

\* (variant) the self-test nested under persist_test_data
AfterSaveModelTestUnderPersist(a) ==
    IF a.test_input_data # None /\ a.persist_test_data = "True"
    THEN "save_test_data"
    ELSE "done"

\* (variant) the self-test run whether or not test input was given
AfterSaveModelAlwaysTest(a) ==
    IF a.persist_test_data = "True" THEN "save_test_data" ELSE "load_and_test"

\* (variant) persist_test_data ignored
AfterSaveModelAlwaysPersist(a) ==
    IF a.test_input_data # None THEN "save_test_data" ELSE "done"

\* lines 122-123: what follows torch.jit.save
AfterSaveModel(a) ==
    IF a.test_input_data # None
    THEN IF a.persist_test_data = "True" THEN "save_test_data" ELSE "load_and_test"
    ELSE "done"

\* load_and_test_neuropod (eval_utils): loads the packaged model, runs it on
\* the test input and compares the output with the expected output when one
\* is given.  The exception it raises, or NoExc.
LoadAndTestResult(model, expected, infer_ok) ==
    IF ~infer_ok
    THEN [type |-> "ValueError", msg |-> "inference failed"]
    ELSE IF expected # None /\ Infer(model[2]) # expected
         THEN [type |-> "ValueError", msg |-> "output mismatch"]
         ELSE NoExc

----------------------------------------------------------------------------
(* The steps of one call *)

Raise(p, e) ==
    /\ exc' = [exc EXCEPT ![p] = e]
    /\ pc' = [pc EXCEPT ![p] = "done"]

Goto(p, label) ==
    /\ pc' = [pc EXCEPT ![p] = label]
    /\ UNCHANGED exc

Did(p, what) == log' = [log EXCEPT ![p] = Append(@, what)]

\* (variant) the OSError of os.mkdir swallowed instead of re-raised
MkdirSwallow(p) ==
    /\ pc[p] = "mkdir"
    /\ existed' = [existed EXCEPT ![p] = PathExists(Arg(p).neuropod_path)]
    /\ dirs' = dirs \cup {Arg(p).neuropod_path}
    /\ log' = [log EXCEPT ![p] = Append(@, "mkdir")]
    /\ pc' = [pc EXCEPT ![p] = "makedirs_ops"]
    /\ UNCHANGED <<env, files, call, i, exc>>

\* lines 90-94
Mkdir(p) ==
    /\ pc[p] = "mkdir"
    /\ existed' = [existed EXCEPT ![p] = PathExists(Arg(p).neuropod_path)]
    /\ IF OsMkdirOk(Arg(p).neuropod_path)
       THEN /\ dirs' = dirs \cup {Arg(p).neuropod_path}
            /\ Did(p, "mkdir")
            /\ Goto(p, "makedirs_ops")
       ELSE /\ Raise(p, MkdirError)
            /\ UNCHANGED <<dirs, log>>
    /\ UNCHANGED <<env, files, call, i>>

\* lines 97-98
MakedirsOps(p) ==
    /\ pc[p] = "makedirs_ops"
    /\ IF OsMakedirsOk(OpsDir(Arg(p).neuropod_path))
       THEN /\ dirs' = dirs \cup AncestorsAndSelf(OpsDir(Arg(p).neuropod_path))
            /\ Did(p, "makedirs_ops")
            /\ Goto(p, IF Len(Arg(p).custom_ops) = 0 THEN AfterCopy ELSE "copy")
       ELSE /\ Raise(p, [type |-> "OSError", msg |-> "makedirs ops"])
            /\ UNCHANGED <<dirs, log>>
    /\ i' = [i EXCEPT ![p] = 1]
    /\ UNCHANGED <<env, files, call, existed>>

\* lines 99-100: one iteration of the loop; the source may be unreadable
CopyOp(p) ==
    /\ pc[p] = "copy"
    /\ \E readable \in BOOLEAN :
        LET op == Arg(p).custom_ops[i[p]]
            dst == Join(OpsDir(Arg(p).neuropod_path), Basename(op))
        IN  IF readable /\ op \in DOMAIN files
            THEN /\ files' = Put(files, dst, files[op])
                 /\ Did(p, "copy")
                 /\ i' = [i EXCEPT ![p] = @ + 1]
                 /\ Goto(p, IF i[p] = Len(Arg(p).custom_ops) THEN AfterCopy ELSE "copy")
            ELSE /\ Raise(p, [type |-> "IOError", msg |-> "copy"])
                 /\ UNCHANGED <<files, log, i>>
    /\ UNCHANGED <<env, dirs, call, existed>>

\* lines 103-112; write_neuropod_config may reject its arguments
WriteConfig(p) ==
    /\ pc[p] = "write_config"
    /\ \E accepted \in BOOLEAN :
        IF accepted
        THEN /\ files' = Put(files, ConfigPath(Arg(p).neuropod_path),
                             ConfigFile(ConfigOf(Arg(p))))
             /\ Did(p, "write_config")
             /\ Goto(p, AfterWriteConfig)
        ELSE /\ Raise(p, [type |-> "ValueError", msg |-> "bad config"])
             /\ UNCHANGED <<files, log>>
    /\ UNCHANGED <<env, dirs, call, i, existed>>

\* lines 115-116
MakedirsData(p) ==
    /\ pc[p] = "makedirs_data"
    /\ IF OsMakedirsOk(DataDir(Arg(p).neuropod_path))
       THEN /\ dirs' = dirs \cup AncestorsAndSelf(DataDir(Arg(p).neuropod_path))
            /\ Did(p, "makedirs_data")
            /\ Goto(p, "save_model")
       ELSE /\ Raise(p, [type |-> "OSError", msg |-> "makedirs data"])
            /\ UNCHANGED <<dirs, log>>
    /\ UNCHANGED <<env, files, call, i, existed>>

\* lines 119-123; torch.jit.save may fail to serialize the module
SaveModel(p) ==
    /\ pc[p] = "save_model"
    /\ \E saved \in BOOLEAN :
        IF saved
        THEN /\ files' = Put(files, ModelPath(Arg(p).neuropod_path),
                             SavedModel(Arg(p).module))
             /\ Did(p, "save_model")
             /\ Goto(p, AfterSaveModel(Arg(p)))
        ELSE /\ Raise(p, [type |-> "RuntimeError", msg |-> "jit save"])
             /\ UNCHANGED <<files, log>>
    /\ UNCHANGED <<env, dirs, call, i, existed>>

\* line 124
SaveTestData(p) ==
    /\ pc[p] = "save_test_data"
    /\ files' = Put(files, TestDataPath(Arg(p).neuropod_path),
                    TestData(Arg(p).test_input_data, Arg(p).test_expected_out))
    /\ Did(p, "save_test_data")
    /\ Goto(p, "load_and_test")
    /\ UNCHANGED <<env, dirs, call, i, existed>>

\* lines 125-131; inference itself may fail
LoadAndTest(p) ==
    /\ pc[p] = "load_and_test"
    /\ \E infer_ok \in BOOLEAN :
        LET r == LoadAndTestResult(files[ModelPath(Arg(p).neuropod_path)],
                                   Arg(p).test_expected_out, infer_ok)
        IN  /\ exc' = [exc EXCEPT ![p] = r]
            /\ pc' = [pc EXCEPT ![p] = "done"]
    /\ Did(p, "load_and_test")
    /\ UNCHANGED <<env, dirs, files, call, i, existed>>

----------------------------------------------------------------------------
(* Specifications *)

InitCommon ==
    /\ env \in Envs
    /\ dirs = InitDirs(env)
    /\ files = InitFiles(env)
    /\ i = [p \in Calls |-> 1]
    /\ exc = [p \in Calls |-> NoExc]
    /\ existed = [p \in Calls |-> FALSE]
    /\ log = [p \in Calls |-> <<>>]

\* one call, with any arguments, in any of the initial file systems
Init ==
    /\ InitCommon
    /\ \E a \in ArgSpace : call = [p \in Calls |-> IF p = 1 THEN a ELSE Unused]
    /\ pc = [p \in Calls |-> IF p = 1 THEN "mkdir" ELSE "notcalled"]

\* every call is made, all on the same neuropod_path, and they interleave
InitConc ==
    /\ InitCommon
    /\ call \in [Calls -> ConcArgSpace]
    /\ pc = [p \in Calls |-> "mkdir"]

Next ==
    \E p \in Calls :
        \/ Mkdir(p)
        \/ MakedirsOps(p)
        \/ CopyOp(p)
        \/ WriteConfig(p)
        \/ MakedirsData(p)
        \/ SaveModel(p)
        \/ SaveTestData(p)
        \/ LoadAndTest(p)

Spec == Init /\ [][Next]_vars

SpecConc == InitConc /\ [][Next]_vars

----------------------------------------------------------------------------
(* Vocabulary of the properties *)

Finished(p) == pc[p] = "done"
Returned(p) == pc[p] = "done" /\ exc[p] = NoExc
Started(p) == pc[p] \notin {"notcalled", "mkdir"}

\* call p has performed the effect
Has(p, what) == \E k \in DOMAIN log[p] : log[p][k] = what
Count(p, what) == Cardinality({k \in DOMAIN log[p] : log[p][k] = what})
\* every occurrence of a precedes every occurrence of b in p's effects
Before(p, a, b) ==
    \A k, m \in DOMAIN log[p] : (log[p][k] = a /\ log[p][m] = b) => k < m

\* the expected output is given and is not what the packaged model produces
Mismatch(p) ==
    /\ Arg(p).test_expected_out # None
    /\ Infer(Arg(p).module) # Arg(p).test_expected_out

IsPrefix(s, t) == Len(s) <= Len(t) /\ \A k \in 1 .. Len(s) : s[k] = t[k]

\* the effects of a complete call, in the order of the function body
CodeOrder(a) ==
    <<"mkdir", "makedirs_ops">> \o [k \in 1 .. Len(a.custom_ops) |-> "copy"]
        \o <<"write_config", "makedirs_data", "save_model">>
        \o (IF a.test_input_data # None /\ a.persist_test_data = "True"
            THEN <<"save_test_data">> ELSE <<>>)
        \o (IF a.test_input_data # None THEN <<"load_and_test">> ELSE <<>>)

\* the position of an effect in the order the claim C7 lists the steps; the
\* folder made for the model counts with the serialization step
ClaimedRank(what) ==
    CASE what \in {"mkdir", "makedirs_ops"} -> 1
      [] what = "copy" -> 2
      [] what \in {"makedirs_data", "save_model"} -> 3
      [] what = "write_config" -> 4
      [] OTHER -> 5

----------------------------------------------------------------------------
(* C1 *)

\* C1: a call that finds neuropod_path existing raises ValueError and has no
\* effect at all: it performs none of the steps, and the directories and
\* files are exactly those the call started with.
C1_ExistingPathUntouched ==
    \A p \in Calls :
        (Started(p) /\ existed[p]) =>
            /\ Finished(p)
            /\ exc[p].type = "ValueError"
            /\ log[p] = <<>>
            /\ dirs = InitDirs(env)
            /\ files = InitFiles(env)

C1_Witness ==
    \E p \in Calls :
        /\ Finished(p) /\ existed[p] /\ env = "exists_full"
        /\ Arg(p).test_input_data # None
        /\ Len(Arg(p).custom_ops) > 0

(* C2 *)

\* C2 (as stated, for the calls that package the model): whenever the
\* expected output is given and the packaged model's output differs from it,
\* the call raises ValueError, test_input_data given or not.
C2_MismatchAlwaysRaises ==
    \A p \in Calls :
        (Finished(p) /\ Has(p, "save_model") /\ Mismatch(p)) =>
            exc[p].type = "ValueError"

\* C2 (amended): when test_input_data is given and the call gets as far as the
\* load-and-test run, an expected output that the packaged model's output
\* does not match makes the call raise ValueError, after that run.
C2_MismatchRaisesWhenTested ==
    \A p \in Calls :
        (Finished(p) /\ Has(p, "save_model") /\ Arg(p).test_input_data # None
            /\ Mismatch(p)) =>
            /\ exc[p].type = "ValueError"
            /\ Has(p, "load_and_test")

C2_Witness ==
    \E p \in Calls :
        /\ Finished(p) /\ Mismatch(p) /\ Arg(p).test_input_data # None
        /\ exc[p] = [type |-> "ValueError", msg |-> "output mismatch"]
        /\ Arg(p).persist_test_data = "False"

(* C3 *)

C5_CompleteOnReturn ==
    \A p \in Calls :
        Returned(p) =>
            LET a == Arg(p)
                np == a.neuropod_path
            IN  /\ np \in dirs /\ ~existed[p] /\ Has(p, "mkdir")
                /\ OpsDir(np) \in dirs
                /\ \A k \in 1 .. Len(a.custom_ops) :
                        LET copy == Join(OpsDir(np), a.custom_ops[k][Len(a.custom_ops[k])])
                        IN  /\ copy \in DOMAIN files
                            /\ files[copy] = files[a.custom_ops[k]]
                /\ Count(p, "write_config") = 1
                /\ ConfigPath(np) \in DOMAIN files
                /\ DataDir(np) \in dirs
                /\ ModelPath(np) \in DOMAIN files
                /\ files[ModelPath(np)] = <<"torchscript", a.module>>

(* C6 *)

\* C6: the ValueError saying that neuropod_path already exists is raised
\* only by a call that found neuropod_path existing.
C6_ExistsErrorOnlyIfExisted ==
    \A p \in Calls :
        exc[p] = [type |-> "ValueError", msg |-> "already exists"] => existed[p]

(* C7 *)

\* C7 (as stated): the steps run in the order create folders, copy the custom
\* ops, serialize the model, write the config, self-test: no effect of a call
\* is followed by one that the list puts earlier.
C7_ClaimedOrder ==
    \A p \in Calls :
        \A k, m \in DOMAIN log[p] :
            k < m => ClaimedRank(log[p][k]) <= ClaimedRank(log[p][m])

\* C7 (amended): the steps run strictly one after the other in the order of
\* the function body: create neuropod_path, create 0/ops, copy the custom
\* ops, write the config, create 0/data, serialize the model, then the
\* optional self-test; the config is written before the model is serialized.
C7_CodeOrder ==
    \A p \in Calls :
        /\ IsPrefix(log[p], CodeOrder(Arg(p)))
        /\ Returned(p) => log[p] = CodeOrder(Arg(p))
        /\ Has(p, "save_model") =>
            Has(p, "write_config") /\ Before(p, "write_config", "save_model")

C7_Witness ==
    \E p \in Calls :
        /\ Returned(p)
        /\ Len(Arg(p).custom_ops) = 2
        /\ Has(p, "save_test_data") /\ Has(p, "load_and_test")
        /\ Has(p, "write_config") /\ Has(p, "save_model")

(* C8 *)

\* C8: the config written has platform "torchscript", a custom_ops list that
\* is the base names of the custom_ops argument in order, each of them a
\* file in 0/ops when the config is written, and the specs and devices as
\* the caller gave them ("GPU" for a default device not given).
C8_ConfigContents ==
    \A p \in Calls :
        Has(p, "write_config") =>
            LET given == call[p]
                np == given.neuropod_path
                cfg == files[ConfigPath(np)][2]
            IN  /\ cfg.platform = "torchscript"
                /\ Len(cfg.custom_ops) = Len(given.custom_ops)
                /\ \A k \in 1 .. Len(given.custom_ops) :
                        /\ cfg.custom_ops[k] = given.custom_ops[k][Len(given.custom_ops[k])]
                        /\ Join(OpsDir(np), cfg.custom_ops[k]) \in DOMAIN files
                /\ cfg.input_spec = given.input_spec
                /\ cfg.output_spec = given.output_spec
                /\ cfg.input_tensor_device =
                        (IF given.input_tensor_device = NotGiven THEN None
                         ELSE given.input_tensor_device)
                /\ cfg.default_input_tensor_device =
                        (IF given.default_input_tensor_device = NotGiven THEN "GPU"
                         ELSE given.default_input_tensor_device)

C8_Witness ==
    \E p \in Calls :
        /\ pc[p] = "makedirs_data"
        /\ call[p].custom_ops = << <<"a", "y.so">>, <<"b", "x.so">> >>
        /\ call[p].default_input_tensor_device = "CPU"
        /\ files[ConfigPath(NeuropodPath)][2].custom_ops = <<"y.so", "x.so">>

(* C9 *)

\* C9: of the calls racing for one neuropod_path at most one gets past its
\* creation and has any effect; every other call that has run ended with
\* ValueError and no effect, so what the neuropod holds comes from one call.
C9_OneCreator ==
    /\ Cardinality({p \in Calls : log[p] # <<>>}) <= 1
    /\ \A p \in Calls :
        (Started(p) /\ ~Has(p, "mkdir")) =>
            /\ Finished(p)
            /\ exc[p].type = "ValueError"
            /\ log[p] = <<>>
    /\ \A p \in Calls :
        Has(p, "mkdir") =>
            /\ ~existed[p]
            /\ Has(p, "write_config") =>
                files[ConfigPath(NeuropodPath)] = <<"config", ConfigOf(Arg(p))>>
            /\ \A path \in DOMAIN files :
                (path \notin DOMAIN InitFiles(env)) =>
                    \/ path = ConfigPath(NeuropodPath) /\ Has(p, "write_config")
                    \/ path = ModelPath(NeuropodPath) /\ Has(p, "save_model")
                    \/ path = TestDataPath(NeuropodPath) /\ Has(p, "save_test_data")
                    \/ Parent(path) = OpsDir(NeuropodPath) /\ Has(p, "copy")

C9_Witness ==
    \E p, q \in Calls :
        /\ p # q
        /\ pc[p] = "write_config" /\ Has(p, "copy")
        /\ Finished(q) /\ exc[q].type = "ValueError" /\ log[q] = <<>>
        /\ call[p] # call[q]

====
